---- MODULE Spec2Model ----
(***************************************************************************)
(* Model of the GCS transfer module of NodeODM (src/libs/odmInfo.js, lines *)
(* 458-728): initialize, uploadPaths with its async.queue worker, retry    *)
(* timers, errHandler and q.drain.                                         *)
(*                                                                         *)
(* The event loop of Node.js runs one callback at a time, so every action  *)
(* below is one callback run to completion.  async.queue is the queue of   *)
(* async 2.x (the version in which q.drain is an assignable property):     *)
(* push/_insert, process, the per-task done callback (_next), kill, idle.  *)
(*                                                                         *)
(* Environment: the filesystem snapshot does not change during a batch     *)
(* (fs.statSync in the worker does not throw), and every attempt emits     *)
(* exactly one of 'finish' and 'error' on its write stream.  Which of the  *)
(* two is left open, so a task may fail any number of times.               *)
(***************************************************************************)
EXTENDS Integers, Sequences, FiniteSets, TLC

\* --------------------------------------------------- constants and bounds
\* const MAX_RETRIES = 5
MAX_RETRIES == 5
\* config.gcsParallelUploads (16 when not configured)
PARALLEL_UPLOADS == 2
\* longest paths argument, and largest task list, of a batch
MaxPaths == 2
MaxTasks == 3
\* longest options argument of filterOptions
MaxOptions == 2

\* ------------------------------------------------------- paths, filesystem
\* A path is a sequence of components.  The snapshot of srcFolder:
\*   a.tif            regular file
\*   d/a.tif          regular file in directory d
\*   d/s/a.tif        regular file in directory d/s
\*   d/s/b.png        regular file in directory d/s
\*   d/.meta          regular file in directory d whose name starts with a dot
\*   e                empty directory
\*   m                does not exist
SrcFolder == << "data" >>
DstFolder == << "out" >>

RegularFiles ==
    { << "a.tif" >>, << "d", "a.tif" >>, << "d", "s", "a.tif" >>, << "d", "s", "b.png" >>,
      << "d", ".meta" >> }
Directories == { << "d" >>, << "d", "s" >>, << "e" >> }

\* The order in which the directory walk of glob (nosort) meets the files.
WalkOrder ==
    << << "a.tif" >>, << "d", ".meta" >>, << "d", "a.tif" >>, << "d", "s", "a.tif" >>,
       << "d", "s", "b.png" >> >>

\* The component names of the snapshot that start with a dot.
DotNames == { ".meta" }

\* The relative paths a caller may list.
ListedPaths == { << "a.tif" >>, << "d" >>, << "e" >>, << "m" >> }

RECURSIVE SeqsUpTo(_, _)
SeqsUpTo(S, n) ==
    IF n = 0 THEN { << >> }
    ELSE LET shorter == SeqsUpTo(S, n - 1)
         IN  shorter \cup { Append(s, x) : s \in { t \in shorter : Len(t) = n - 1 }, x \in S }

PathLists == SeqsUpTo(ListedPaths, MaxPaths)

join(a, b) == a \o b

basename(p) == p[Len(p)]

IsUnder(dir, f) ==
    /\ Len(f) > Len(dir)
    /\ SubSeq(f, 1, Len(dir)) = dir

existsSync(p) == p \in RegularFiles \cup Directories

isDirectory(p) == p \in Directories

\* The pattern ** does not match f below p: without the option dot, a path
\* portion that starts with a dot is not matched by a wildcard.
DotHidden(p, f) == \E i \in (Len(p) + 1)..Len(f) : f[i] \in DotNames

\* Variant of globSync with the option dot: true.
globSync_Dot(p) == SelectSeq(WalkOrder, LAMBDA f : IsUnder(p, f))

\* glob.sync(`${p}/**`, {cwd: srcFolder, nodir: true, nosort: true})
globSync(p) == SelectSeq(WalkOrder, LAMBDA f : IsUnder(p, f) /\ ~DotHidden(p, f))

NewTask(gp) ==
    [ src |-> join(SrcFolder, gp),
      dest |-> join(DstFolder, gp),
      relativePath |-> gp,
      retries |-> 0 ]

\* The tasks one listed path contributes (the body of paths.forEach).
ExpandPath(p) ==
    IF ~existsSync(p) THEN << >>
    ELSE IF isDirectory(p)
         THEN LET g == globSync(p) IN [i \in 1..Len(g) |-> NewTask(g[i])]
         ELSE << NewTask(p) >>

RECURSIVE BuildUploadList(_)
BuildUploadList(paths) ==
    IF paths = << >> THEN << >>
    ELSE ExpandPath(Head(paths)) \o BuildUploadList(Tail(paths))

\* ------------------------------------------------------------------- state
VARIABLES
    gcsBucket,         \* config.gcsBucket is set
    storage,           \* module variable storage is not null
    bucket,            \* module variable bucket is not null
    init,              \* initialize: [called, existsPending, cbCount, cbErr]
    phase,             \* uploadPaths: "idle", "returned" (early return), "running",
                       \* "fsThrew", "sinkThrew" (left by an exception)
    onOutput,          \* the caller passed an onOutput function
    uploadList,        \* the task objects (file.retries is mutated in place)
    totalFiles,
    completedUploads,
    cbCalled,
    q,                 \* the async.queue object: [tasks, numRunning, drain, processingScheduled]
    st,                \* where each task object is: "queued", "uploading", "backoff",
                       \* "succeeded", "failed", "removed" (dropped by q.kill),
                       \* "stuck" (its handler was left by an exception)
    killed,            \* errHandler has run q.kill()
    caller,            \* what the caller has observed: [cbCount, cbArg, lastEvent, cbInFlight]
    attempts,          \* per task: [started: workers started for it, delays: setTimeout delays in ms]
    cleanup,           \* cleanupLocalPaths: [phase, paths, i, pending, attempted, deletedAt,
                       \* failedAt, onOutput, lastEvent, cbCount, cbErr]
    previous,          \* how the batch before the current one ended: "none", "succeeded", "failed"
    listed,            \* the paths argument of the call, where it is recorded: [called, paths]
    fo                 \* filterOptions: [phase, options, odmOptions, maxConcurrency, totalmem,
                       \* err, result]

vars == << gcsBucket, storage, bucket, init, phase, onOutput, uploadList, totalFiles,
           completedUploads, cbCalled, q, st, killed, caller, attempts, cleanup,
           previous, listed, fo >>

moduleVars == << gcsBucket, storage, bucket, init >>

batchVars == << phase, onOutput, uploadList, totalFiles, completedUploads, cbCalled,
                q, st, killed, caller, attempts >>

Tasks == 1..Len(uploadList)

\* A task no worker has been started for.
NoAttempt == [started |-> 0, delays |-> << >>]

RECURSIVE Pow2(_)
Pow2(n) == IF n = 0 THEN 1 ELSE 2 * Pow2(n - 1)

\* Variant of retryDelay that doubles from one second.
retryDelay_FromOneSecond(r) == Pow2(r - 1) * 1000

\* const delay = Math.pow(2, file.retries) * 1000, in milliseconds
retryDelay(r) == Pow2(r) * 1000

\* Values handed to a completion callback.
NoCall == [kind |-> "none", filename |-> "", retries |-> 0]
NoError == [kind |-> "ok", filename |-> "", retries |-> 0]
NotInitializedError == [kind |-> "GCS is not initialized", filename |-> "", retries |-> 0]
UploadError(file) ==
    [kind |-> "Failed to upload", filename |-> basename(file.dest), retries |-> MAX_RETRIES]

IsError(arg) == arg.kind \notin {"none", "ok"}

\* The batch state the handlers read and write, as one record, so that the
\* statements of a handler compose in program order.
Cur ==
    [ phase |-> phase, onOutput |-> onOutput, uploadList |-> uploadList, totalFiles |-> totalFiles,
      completedUploads |-> completedUploads, cbCalled |-> cbCalled, q |-> q, st |-> st,
      killed |-> killed, caller |-> caller, attempts |-> attempts ]

Commit(s) ==
    /\ phase' = s.phase
    /\ onOutput' = s.onOutput
    /\ uploadList' = s.uploadList
    /\ totalFiles' = s.totalFiles
    /\ completedUploads' = s.completedUploads
    /\ cbCalled' = s.cbCalled
    /\ q' = s.q
    /\ st' = s.st
    /\ killed' = s.killed
    /\ caller' = s.caller
    /\ attempts' = s.attempts

InFlight(s) == { t \in DOMAIN s.st : s.st[t] \in {"uploading", "backoff"} }

\* cb(arg): the caller observes the completion callback.
cb(s, arg) ==
    [s EXCEPT !.caller = [cbCount |-> @.cbCount + 1, cbArg |-> arg, lastEvent |-> "cb",
                          cbInFlight |-> InFlight(s)]]

\* if (onOutput) onOutput(msg)
Output(s, msg) ==
    IF s.onOutput THEN [s EXCEPT !.caller.lastEvent = msg] ELSE s

\* ------------------------------------------------------------ async.queue
\* q.idle()
idle(s) == Len(s.q.tasks) + s.q.numRunning = 0

\* Variant of process that ignores the concurrency limit.
process_NoLimit(s) ==
    [s EXCEPT !.q.tasks = << >>, !.q.numRunning = @ + Len(s.q.tasks),
              !.st = [t \in DOMAIN @ |-> IF @[t] = "queued" THEN "uploading" ELSE @[t]],
              !.attempts = [t \in DOMAIN @ |-> IF s.st[t] = "queued"
                                               THEN [@[t] EXCEPT !.started = @ + 1] ELSE @[t]]]

\* Variant of process that starts the worker for the head of the queue and
\* leaves the item in the queue.
RECURSIVE process_NoShift(_)
process_NoShift(s) ==
    IF s.q.numRunning < PARALLEL_UPLOADS /\ Len(s.q.tasks) > 0
    THEN LET t == Head(s.q.tasks)
         IN  process_NoShift([s EXCEPT !.q.numRunning = @ + 1,
                                       !.st[t] = "uploading", !.attempts[t].started = @ + 1])
    ELSE s

\* q.process(): start workers while there is a free slot and a queued task.
\* Starting the worker creates the streams of the attempt.
RECURSIVE process(_)
process(s) ==
    IF s.q.numRunning < PARALLEL_UPLOADS /\ Len(s.q.tasks) > 0
    THEN LET t == Head(s.q.tasks)
         IN  process([s EXCEPT !.q.tasks = Tail(@), !.q.numRunning = @ + 1,
                               !.st[t] = "uploading", !.attempts[t].started = @ + 1])
    ELSE s

\* q.push(data, errHandler): _insert appends the items and schedules process.
push(s, ts) ==
    [s EXCEPT !.q.tasks = @ \o ts,
              !.q.processingScheduled = TRUE,
              !.st = [t \in DOMAIN @ |-> IF \E i \in 1..Len(ts) : ts[i] = t
                                         THEN "queued" ELSE @[t]]]

\* q.kill(): drain becomes a no-op and the queued items are dropped.
kill(s) ==
    [s EXCEPT !.q.drain = "noop",
              !.q.tasks = << >>,
              !.st = [t \in DOMAIN @ |-> IF @[t] = "queued" THEN "removed" ELSE @[t]],
              !.killed = TRUE]

\* Variant of errHandler without the cbCalled guard.
errHandler_NoGuard(s, err) ==
    IF IsError(err) THEN cb([kill(s) EXCEPT !.cbCalled = TRUE], err) ELSE s

\* Variant of errHandler that reports the abort to the caller without the error.
errHandler_SwallowError(s, err) ==
    IF IsError(err)
    THEN LET k == kill(s)
         IN  IF ~k.cbCalled THEN cb([k EXCEPT !.cbCalled = TRUE], NoError) ELSE k
    ELSE s

\* const errHandler = err => { ... }
errHandler(s, err) ==
    IF IsError(err)
    THEN LET k == kill(s)
         IN  IF ~k.cbCalled THEN cb([k EXCEPT !.cbCalled = TRUE], err) ELSE k
    ELSE s

\* q.drain = () => { ... }
drainHandler(s) ==
    IF ~s.cbCalled
    THEN cb(Output([s EXCEPT !.cbCalled = TRUE], "Successfully uploaded"), NoError)
    ELSE s

\* q.drain(): the handler uploadPaths installed, or the no-op kill left.
drain(s) == IF s.q.drain = "handler" THEN drainHandler(s) ELSE s

\* done(err), the callback _next gives the worker for task t.
done(s, t, err) ==
    LET s1 == [s EXCEPT !.q.numRunning = @ - 1]
        s2 == errHandler(s1, err)
        s3 == IF idle(s2) THEN drain(s2) ELSE s2
    IN  process(s3)

\* ------------------------------------------------------------- initialize
\* initialize(cb); thrown names the constructor call that throws, if any.
Initialize(thrown) ==
    /\ ~init.called
    /\ IF gcsBucket
       THEN CASE thrown = "Storage" ->
                   /\ init' = [init EXCEPT !.called = TRUE, !.cbCount = @ + 1, !.cbErr = TRUE]
                   /\ UNCHANGED << storage, bucket >>
              [] thrown = "bucket" ->
                   /\ storage' = TRUE
                   /\ init' = [init EXCEPT !.called = TRUE, !.cbCount = @ + 1, !.cbErr = TRUE]
                   /\ UNCHANGED bucket
              [] OTHER ->
                   /\ storage' = TRUE
                   /\ bucket' = TRUE
                   /\ init' = [init EXCEPT !.called = TRUE, !.existsPending = TRUE]
       ELSE /\ thrown = "none"
            /\ init' = [init EXCEPT !.called = TRUE, !.cbCount = @ + 1, !.cbErr = FALSE]
            /\ UNCHANGED << storage, bucket >>
    /\ UNCHANGED gcsBucket
    /\ UNCHANGED << batchVars, cleanup, previous, listed, fo >>

\* bucket.exists((err, exists) => { ... })
ExistsReply(err, exists) ==
    /\ init.existsPending
    /\ init' = [init EXCEPT !.existsPending = FALSE, !.cbCount = @ + 1,
                            !.cbErr = (err \/ ~exists)]
    /\ UNCHANGED << gcsBucket, storage, bucket >>
    /\ UNCHANGED << batchVars, cleanup, previous, listed, fo >>

\* enabled()
enabled == storage /\ bucket

\* ------------------------------------------------------------ uploadPaths
\* Variant of uploadPaths without the totalFiles === 0 return.
uploadPaths_NoEmptyCheck(s, paths) ==
    IF ~storage \/ ~bucket
    THEN cb([s EXCEPT !.phase = "returned"], NotInitializedError)
    ELSE LET list == BuildUploadList(paths)
         IN  [Output(s, "Uploading") EXCEPT
                  !.uploadList = list, !.totalFiles = Len(list), !.completedUploads = 0,
                  !.phase = "running", !.cbCalled = FALSE,
                  !.q = [tasks |-> [t \in 1..Len(list) |-> t], numRunning |-> 0,
                         drain |-> "handler", processingScheduled |-> TRUE],
                  !.st = [t \in 1..Len(list) |-> "queued"],
                  !.attempts = [t \in 1..Len(list) |-> NoAttempt]]

\* Variant of uploadPaths without the check of storage and bucket.
uploadPaths_NoInitCheck(s, paths) ==
    LET list == BuildUploadList(paths)
        s1 == [s EXCEPT !.uploadList = list, !.totalFiles = Len(list), !.completedUploads = 0]
    IN  IF s1.totalFiles = 0
        THEN cb(Output([s1 EXCEPT !.phase = "returned"], "No files to upload"), NoError)
        ELSE push([Output(s1, "Uploading") EXCEPT
                       !.phase = "running", !.cbCalled = FALSE,
                       !.q = [tasks |-> << >>, numRunning |-> 0, drain |-> "handler",
                              processingScheduled |-> FALSE],
                       !.st = [t \in 1..Len(list) |-> "new"],
                       !.attempts = [t \in 1..Len(list) |-> NoAttempt]],
                  [t \in 1..Len(list) |-> t])

\* uploadPaths(srcFolder, bucketName, dstFolder, paths, cb, onOutput)
uploadPaths(s, paths) ==
    IF ~storage \/ ~bucket
    THEN cb([s EXCEPT !.phase = "returned"], NotInitializedError)
    ELSE LET list == BuildUploadList(paths)
             s1 == [s EXCEPT !.uploadList = list, !.totalFiles = Len(list),
                             !.completedUploads = 0]
         IN  IF s1.totalFiles = 0
             THEN cb(Output([s1 EXCEPT !.phase = "returned"], "No files to upload"), NoError)
             ELSE LET s2 == Output(s1, "Uploading")
                      s3 == [s2 EXCEPT !.phase = "running",
                                       !.cbCalled = FALSE,
                                       !.q = [tasks |-> << >>, numRunning |-> 0,
                                              drain |-> "handler",
                                              processingScheduled |-> FALSE],
                                       !.st = [t \in 1..Len(list) |-> "new"],
                                       !.attempts = [t \in 1..Len(list) |-> NoAttempt]]
                  IN  push(s3, [t \in 1..Len(list) |-> t])

\* The caller calls uploadPaths once, and not while an initialize is outstanding.
UploadPaths(paths, out) ==
    /\ phase = "idle"
    /\ ~init.existsPending
    /\ Len(BuildUploadList(paths)) <= MaxTasks
    /\ Commit(uploadPaths([Cur EXCEPT !.onOutput = out], paths))
    /\ UNCHANGED << moduleVars, cleanup, previous, listed, fo >>

\* The setImmediate callback _insert scheduled: q.process().
ProcessImmediate ==
    /\ phase = "running"
    /\ q.processingScheduled
    /\ Commit(process([Cur EXCEPT !.q.processingScheduled = FALSE]))
    /\ UNCHANGED << moduleVars, cleanup, previous, listed, fo >>

\* Variant of the 'finish' handler that counts the file twice.
StreamFinish_CountTwice(t) ==
    /\ phase = "running"
    /\ st[t] = "uploading"
    /\ LET s1 == [Cur EXCEPT !.completedUploads = @ + 2, !.st[t] = "succeeded"]
           s2 == Output(s1, "Uploaded")
       IN  Commit(done(s2, t, NoError))
    /\ UNCHANGED << moduleVars, cleanup, previous, listed, fo >>

\* .on('finish', () => { ... }) of the attempt of task t
StreamFinish(t) ==
    /\ phase = "running"
    /\ st[t] = "uploading"
    /\ LET s1 == [Cur EXCEPT !.completedUploads = @ + 1, !.st[t] = "succeeded"]
           s2 == Output(s1, "Uploaded")
       IN  Commit(done(s2, t, NoError))
    /\ UNCHANGED << moduleVars, cleanup, previous, listed, fo >>

\* Variant of the 'error' handler that reports the exhausted file through
\* errHandler and still schedules one more retry of it.
StreamError_RetryAfterReport(t) ==
    /\ phase = "running"
    /\ st[t] = "uploading"
    /\ IF uploadList[t].retries < MAX_RETRIES
       THEN LET s1 == [Cur EXCEPT !.uploadList[t].retries = @ + 1]
                s2 == Output(s1, "Retrying")
            IN  Commit([s2 EXCEPT !.st[t] = "backoff",
                                  !.attempts[t].delays =
                                      Append(@, retryDelay(s1.uploadList[t].retries))])
       ELSE Commit(errHandler([Cur EXCEPT !.st[t] = "backoff"], UploadError(uploadList[t])))
    /\ UNCHANGED << moduleVars, cleanup, previous, listed, fo >>

\* Variant of the 'error' handler that calls done() when it schedules the
\* retry, so that the slot is free during the delay.
StreamError_ReleaseSlot(t) ==
    /\ phase = "running"
    /\ st[t] = "uploading"
    /\ IF uploadList[t].retries < MAX_RETRIES
       THEN LET s1 == [Cur EXCEPT !.uploadList[t].retries = @ + 1]
                s2 == Output(s1, "Retrying")
                s3 == [s2 EXCEPT !.st[t] = "backoff",
                                 !.attempts[t].delays =
                                     Append(@, retryDelay(s1.uploadList[t].retries))]
            IN  Commit(done(s3, t, NoError))
       ELSE LET s1 == [Cur EXCEPT !.st[t] = "failed"]
            IN  Commit(done(s1, t, UploadError(uploadList[t])))
    /\ UNCHANGED << moduleVars, cleanup, previous, listed, fo >>

\* Variant of the 'error' handler that compares with <= MAX_RETRIES.
StreamError_OffByOne(t) ==
    /\ phase = "running"
    /\ st[t] = "uploading"
    /\ IF uploadList[t].retries <= MAX_RETRIES
       THEN LET s1 == [Cur EXCEPT !.uploadList[t].retries = @ + 1]
                s2 == Output(s1, "Retrying")
            IN  Commit([s2 EXCEPT !.st[t] = "backoff",
                                  !.attempts[t].delays =
                                      Append(@, retryDelay(s1.uploadList[t].retries))])
       ELSE LET s1 == [Cur EXCEPT !.st[t] = "failed"]
            IN  Commit(done(s1, t, UploadError(uploadList[t])))
    /\ UNCHANGED << moduleVars, cleanup, previous, listed, fo >>

\* Variant of the 'error' handler that reports every failure at once.
StreamError_NoRetry(t) ==
    /\ phase = "running"
    /\ st[t] = "uploading"
    /\ Commit(done([Cur EXCEPT !.st[t] = "failed"], t, UploadError(uploadList[t])))
    /\ UNCHANGED << moduleVars, cleanup, previous, listed, fo >>

\* .on('error', err => { ... }) of the attempt of task t
StreamError(t) ==
    /\ phase = "running"
    /\ st[t] = "uploading"
    /\ IF uploadList[t].retries < MAX_RETRIES
       THEN LET s1 == [Cur EXCEPT !.uploadList[t].retries = @ + 1]
                s2 == Output(s1, "Retrying")
            IN  Commit([s2 EXCEPT !.st[t] = "backoff",
                                  !.attempts[t].delays =
                                      Append(@, retryDelay(s1.uploadList[t].retries))])
       ELSE LET s1 == [Cur EXCEPT !.st[t] = "failed"]
            IN  Commit(done(s1, t, UploadError(uploadList[t])))
    /\ UNCHANGED << moduleVars, cleanup, previous, listed, fo >>

\* Variant of the retry timer that re-pushes the file and forgets done().
RetryTimer_NoDone(t) ==
    /\ phase = "running"
    /\ st[t] = "backoff"
    /\ Commit(push(Cur, << t >>))
    /\ UNCHANGED << moduleVars, cleanup, previous, listed, fo >>

\* Variant of the retry timer that calls done() before it re-pushes the file.
RetryTimer_DoneFirst(t) ==
    /\ phase = "running"
    /\ st[t] = "backoff"
    /\ Commit(push(done([Cur EXCEPT !.st[t] = "removed"], t, NoError), << t >>))
    /\ UNCHANGED << moduleVars, cleanup, previous, listed, fo >>

\* The setTimeout callback of a retry: q.push(file, errHandler); done();
RetryTimer(t) ==
    /\ phase = "running"
    /\ st[t] = "backoff"
    /\ Commit(done(push(Cur, << t >>), t, NoError))
    /\ UNCHANGED << moduleVars, cleanup, previous, listed, fo >>

\* ---------------------------------------------------------- specification
\* No filterOptions call has been made.
NoFilter ==
    [ phase |-> "none", options |-> << >>, odmOptions |-> << >>, maxConcurrency |-> 0,
      totalmem |-> 0, err |-> FALSE, result |-> << >> ]

\* No cleanupLocalPaths call has been made.
NoCleanup ==
    [ phase |-> "idle", paths |-> << >>, i |-> 0, pending |-> FALSE, attempted |-> << >>,
      deletedAt |-> {}, failedAt |-> {}, onOutput |-> FALSE, lastEvent |-> "none",
      cbCount |-> 0, cbErr |-> FALSE ]

Init ==
    /\ gcsBucket \in BOOLEAN
    /\ storage = FALSE
    /\ bucket = FALSE
    /\ init = [called |-> FALSE, existsPending |-> FALSE, cbCount |-> 0, cbErr |-> FALSE]
    /\ phase = "idle"
    /\ onOutput = FALSE
    /\ uploadList = << >>
    /\ totalFiles = 0
    /\ completedUploads = 0
    /\ cbCalled = FALSE
    /\ q = [tasks |-> << >>, numRunning |-> 0, drain |-> "none", processingScheduled |-> FALSE]
    /\ st = << >>
    /\ killed = FALSE
    /\ caller = [cbCount |-> 0, cbArg |-> NoCall, lastEvent |-> "none", cbInFlight |-> {}]
    /\ attempts = << >>
    /\ cleanup = NoCleanup
    /\ previous = "none"
    /\ listed = [called |-> FALSE, paths |-> << >>]
    /\ fo = NoFilter

Next ==
    \/ \E thrown \in {"none", "Storage", "bucket"} : Initialize(thrown)
    \/ \E err \in BOOLEAN, exists \in BOOLEAN : ExistsReply(err, exists)
    \/ \E paths \in PathLists, out \in BOOLEAN : UploadPaths(paths, out)
    \/ ProcessImmediate
    \/ \E t \in Tasks : StreamFinish(t)
    \/ \E t \in Tasks : StreamError(t)
    \/ \E t \in Tasks : RetryTimer(t)

Spec == Init /\ [][Next]_vars

\* Every callback the event loop holds is eventually run: the setImmediate and
\* setTimeout callbacks, and the stream event of every attempt.
FairSpec == Spec /\ WF_vars(Next)

\* ------------------------------------------------- faults of collaborators
\* fs.lstatSync or glob.sync throws at the i-th listed path: nothing catches
\* the exception, which leaves uploadPaths before the queue exists.
UploadPathsFsThrows(paths, i, out) ==
    /\ phase = "idle"
    /\ ~init.existsPending
    /\ enabled
    /\ i \in 1..Len(paths)
    /\ existsSync(paths[i])
    /\ Len(BuildUploadList(SubSeq(paths, 1, i - 1))) <= MaxTasks
    /\ Commit([Cur EXCEPT !.phase = "fsThrew", !.onOutput = out,
                          !.uploadList = BuildUploadList(SubSeq(paths, 1, i - 1))])
    /\ UNCHANGED << moduleVars, cleanup, previous, listed, fo >>

\* onOutput throws on "No files to upload ..." or on "Uploading ...": the
\* exception leaves uploadPaths before cb and before the queue exists.
UploadPathsSinkThrows(paths) ==
    /\ phase = "idle"
    /\ ~init.existsPending
    /\ enabled
    /\ Len(BuildUploadList(paths)) <= MaxTasks
    /\ Commit([Cur EXCEPT !.phase = "sinkThrew", !.onOutput = TRUE,
                          !.uploadList = BuildUploadList(paths),
                          !.totalFiles = Len(BuildUploadList(paths))])
    /\ UNCHANGED << moduleVars, cleanup, previous, listed, fo >>

\* onOutput throws on "[..%] Uploaded ...": the 'finish' handler is left after
\* completedUploads++ and before done().
StreamFinishSinkThrows(t) ==
    /\ phase = "running"
    /\ onOutput
    /\ st[t] = "uploading"
    /\ Commit([Cur EXCEPT !.completedUploads = @ + 1, !.st[t] = "succeeded"])
    /\ UNCHANGED << moduleVars, cleanup, previous, listed, fo >>

\* onOutput throws on "Retrying ...": the 'error' handler is left after
\* file.retries++ and before setTimeout.
StreamErrorSinkThrows(t) ==
    /\ phase = "running"
    /\ onOutput
    /\ st[t] = "uploading"
    /\ uploadList[t].retries < MAX_RETRIES
    /\ Commit([Cur EXCEPT !.uploadList[t].retries = @ + 1, !.st[t] = "stuck"])
    /\ UNCHANGED << moduleVars, cleanup, previous, listed, fo >>

\* onOutput throws on "Successfully uploaded ...": q.drain is left after
\* cbCalled = true and before cb(), inside done() of the last 'finish'.
DrainSinkThrows(t) ==
    /\ phase = "running"
    /\ onOutput
    /\ st[t] = "uploading"
    /\ LET s1 == [Cur EXCEPT !.completedUploads = @ + 1, !.st[t] = "succeeded"]
           s2 == Output(s1, "Uploaded")
           s3 == [s2 EXCEPT !.q.numRunning = @ - 1]
       IN  /\ idle(s3) /\ s3.q.drain = "handler" /\ ~s3.cbCalled
           /\ Commit([s3 EXCEPT !.cbCalled = TRUE])
    /\ UNCHANGED << moduleVars, cleanup, previous, listed, fo >>

FaultNext ==
    \/ Next
    \/ \E paths \in PathLists, i \in 1..MaxPaths, out \in BOOLEAN :
           UploadPathsFsThrows(paths, i, out)
    \/ \E paths \in PathLists : UploadPathsSinkThrows(paths)
    \/ \E t \in Tasks : StreamFinishSinkThrows(t)
    \/ \E t \in Tasks : StreamErrorSinkThrows(t)
    \/ \E t \in Tasks : DrainSinkThrows(t)

\* The program with collaborators that may throw: the filesystem calls of the
\* task list construction and the onOutput sink.
FaultSpec == Init /\ [][FaultNext]_vars

\* ------------------------------------------------------ cleanupLocalPaths
\* fs.existsSync(fullPath) during the cleanup c: the path is in the snapshot
\* and neither it nor a directory above it has been deleted by the cleanup.
existsNow(c, p) ==
    /\ existsSync(p)
    /\ ~ \E j \in c.deletedAt : c.paths[j] = p \/ IsUnder(c.paths[j], p)

\* if (onOutput) onOutput(msg), for the onOutput of cleanupLocalPaths
CleanupOutput(c, msg) == IF c.onOutput THEN [c EXCEPT !.lastEvent = msg] ELSE c

\* The final callback of async.eachSeries: err => { onOutput(...); cb(err); }
\* done() is never given an error, so err is null.
cleanupFinal(c) ==
    [CleanupOutput(c, "Local cleanup completed") EXCEPT
         !.phase = "done", !.cbCount = @ + 1, !.cbErr = FALSE, !.lastEvent = "cb"]

\* Variant of eachSeriesFrom in which the iteration ends at the first path
\* whose deletion failed.
RECURSIVE eachSeriesFrom_StopOnFailure(_, _)
eachSeriesFrom_StopOnFailure(c, i) ==
    IF i > Len(c.paths) \/ c.failedAt # {}
    THEN cleanupFinal([c EXCEPT !.i = i])
    ELSE IF ~existsNow(c, c.paths[i])
         THEN eachSeriesFrom_StopOnFailure(c, i + 1)
         ELSE [c EXCEPT !.i = i, !.pending = TRUE, !.attempted = Append(@, i)]

\* async.eachSeries from the i-th path on: the iterator skips the paths that
\* do not exist (done() at once) and stops at the first rmdir or fs.unlink it
\* issues; after the last path the final callback runs.
RECURSIVE eachSeriesFrom(_, _)
eachSeriesFrom(c, i) ==
    IF i > Len(c.paths)
    THEN cleanupFinal([c EXCEPT !.i = i])
    ELSE IF ~existsNow(c, c.paths[i])
         THEN eachSeriesFrom(c, i + 1)
         ELSE [c EXCEPT !.i = i, !.pending = TRUE, !.attempted = Append(@, i)]

\* cleanupLocalPaths(srcFolder, paths, cb, onOutput)
CleanupLocalPaths(paths, out) ==
    /\ cleanup.phase = "idle"
    /\ LET c0 == [NoCleanup EXCEPT !.phase = "running", !.paths = paths, !.onOutput = out]
       IN  cleanup' = eachSeriesFrom(CleanupOutput(c0, "Cleaning up"), 1)
    /\ UNCHANGED << moduleVars, batchVars, previous, listed, fo >>

\* The callback of rmdir(fullPath, err => ...) or fs.unlink(fullPath, err => ...):
\* the outcome is logged and done() continues with the next path.
DeleteReply(ok) ==
    /\ cleanup.phase = "running"
    /\ cleanup.pending
    /\ LET c1 == IF ok THEN [cleanup EXCEPT !.pending = FALSE, !.deletedAt = @ \cup {cleanup.i}]
                 ELSE [cleanup EXCEPT !.pending = FALSE, !.failedAt = @ \cup {cleanup.i}]
       IN  cleanup' = eachSeriesFrom(c1, cleanup.i + 1)
    /\ UNCHANGED << moduleVars, batchVars, previous, listed, fo >>

CleanupNext ==
    \/ \E paths \in PathLists, out \in BOOLEAN : CleanupLocalPaths(paths, out)
    \/ \E ok \in BOOLEAN : DeleteReply(ok)

\* cleanupLocalPaths on its own: the code lets it be called at any time.
CleanupSpec == Init /\ [][CleanupNext]_vars

\* ---------------------------------------------------- caller of the module
\* The relative paths of the files a batch over the listed paths uploads.
relativePaths(list) == [ t \in DOMAIN list |-> list[t].relativePath ]

\* The caller of the module asks for the cleanup of the paths it uploaded
\* once the callback of that batch has reported success.
CallerMayCleanup(paths) ==
    /\ caller.cbCount = 1
    /\ caller.cbArg = NoError
    /\ relativePaths(BuildUploadList(paths)) = relativePaths(uploadList)

CallerCleanup(paths, out) ==
    /\ cleanup.phase = "idle"
    /\ CallerMayCleanup(paths)
    /\ CleanupLocalPaths(paths, out)

LifecycleNext ==
    \/ Next
    \/ \E paths \in PathLists, out \in BOOLEAN : CallerCleanup(paths, out)
    \/ \E ok \in BOOLEAN : DeleteReply(ok)

\* Batches followed by the cleanup the caller requests.
LifecycleSpec == Init /\ [][LifecycleNext]_vars

\* ------------------------------------------------- a second call of uploadPaths
\* Variant of NewCall in which the variables of uploadPaths are declared at
\* module level, so that a call finds what the previous call left.
NewCall_ModuleLevel(out) == [Cur EXCEPT !.onOutput = out]

\* What a call of uploadPaths starts with: uploadList, completedUploads,
\* totalFiles, cbCalled and q are declared inside the function, and the cb and
\* onOutput of the call are its arguments.
NewCall(out) ==
    [ phase |-> "idle", onOutput |-> out, uploadList |-> << >>, totalFiles |-> 0,
      completedUploads |-> 0, cbCalled |-> FALSE,
      q |-> [tasks |-> << >>, numRunning |-> 0, drain |-> "none", processingScheduled |-> FALSE],
      st |-> << >>, killed |-> FALSE,
      caller |-> [cbCount |-> 0, cbArg |-> NoCall, lastEvent |-> "none", cbInFlight |-> {}],
      attempts |-> << >> ]

\* No callback of the batch is outstanding: its cb has been invoked, no
\* stream, retry timer or setImmediate of it is pending.
Quiescent ==
    /\ phase \in {"returned", "running"}
    /\ caller.cbCount = 1
    /\ InFlight(Cur) = {}
    /\ ~q.processingScheduled

\* The paths expand to the files of the batch that has ended.
SamePaths(paths) == relativePaths(BuildUploadList(paths)) = relativePaths(uploadList)

\* The caller calls uploadPaths again, on the paths of the batch that ended.
UploadPathsAgain(paths, out) ==
    /\ Quiescent
    /\ ~init.existsPending
    /\ Len(BuildUploadList(paths)) <= MaxTasks
    /\ caller.cbArg # NotInitializedError => SamePaths(paths)
    /\ Commit(uploadPaths(NewCall(out), paths))
    /\ previous' = IF caller.cbArg = NoError THEN "succeeded" ELSE "failed"
    /\ UNCHANGED << moduleVars, cleanup, listed, fo >>

RerunNext ==
    \/ Next
    \/ \E paths \in PathLists, out \in BOOLEAN : UploadPathsAgain(paths, out)

\* Batches run one after the other.
RerunSpec == Init /\ [][RerunNext]_vars

\* ------------------------------------------- uploadPaths, argument recorded
\* UploadPaths, with the paths argument of the call kept for comparison.
UploadPathsListed(paths, out) ==
    /\ phase = "idle"
    /\ ~init.existsPending
    /\ Len(BuildUploadList(paths)) <= MaxTasks
    /\ Commit(uploadPaths([Cur EXCEPT !.onOutput = out], paths))
    /\ listed' = [called |-> TRUE, paths |-> paths]
    /\ UNCHANGED << moduleVars, cleanup, previous, fo >>

ExpandNext ==
    \/ \E thrown \in {"none", "Storage", "bucket"} : Initialize(thrown)
    \/ \E err \in BOOLEAN, exists \in BOOLEAN : ExistsReply(err, exists)
    \/ \E paths \in PathLists, out \in BOOLEAN : UploadPathsListed(paths, out)
    \/ ProcessImmediate
    \/ \E t \in Tasks : StreamFinish(t)
    \/ \E t \in Tasks : StreamError(t)
    \/ \E t \in Tasks : RetryTimer(t)

\* A batch whose paths argument is known.
ExpandSpec == Init /\ [][ExpandNext]_vars

\* ----------------------------------------------------------- filterOptions
\* A JavaScript value: a number, NaN or a boolean.  The unit of a number
\* depends on the option: a count for max-concurrency and matcher-neighbors,
\* 0.01 cm/pixel for orthophoto-resolution (0.1 is 10, 5.0 is 500).
Num(n) == [t |-> "num", v |-> n]
NaN == [t |-> "nan", v |-> 0]
Bool(b) == [t |-> "bool", v |-> IF b THEN 1 ELSE 0]

\* The option descriptions getOptions derives from the engine: name, type and
\* domain (the metavar without its angle brackets).
OdmOption(name) ==
    CASE name = "max-concurrency" -> [name |-> name, type |-> "int", domain |-> "positive integer"]
      [] name = "matcher-neighbors" -> [name |-> name, type |-> "int", domain |-> "positive integer"]
      [] name = "orthophoto-resolution" -> [name |-> name, type |-> "float", domain |-> "float > 0.0"]
      [] OTHER -> [name |-> name, type |-> "bool", domain |-> ""]

\* The module variable odmOptions: the engine's options, one without
\* max-concurrency, one without orthophoto-resolution.
OdmOptionLists ==
    { [i \in 1..5 |-> OdmOption(<< "cog", "matcher-neighbors", "max-concurrency",
                                   "orthophoto-resolution", "tiles" >>[i])],
      [i \in 1..4 |-> OdmOption(<< "cog", "matcher-neighbors", "orthophoto-resolution",
                                   "tiles" >>[i])],
      [i \in 1..4 |-> OdmOption(<< "cog", "matcher-neighbors", "max-concurrency",
                                   "tiles" >>[i])] }

\* The options a user may send: name and value as received.
UserOptions ==
    { [name |-> "max-concurrency", value |-> x] : x \in {"2", "9", "-1", "abc"} }
      \cup { [name |-> "orthophoto-resolution", value |-> x] : x \in {"0.1", "0.2", "0.3", "abc"} }
      \cup { [name |-> "tiles", value |-> x] : x \in {"true", "abc"} }
      \cup { [name |-> "cog", value |-> "false"], [name |-> "matcher-neighbors", value |-> "9"],
             [name |-> "dsm", value |-> "true"] }

OptionLists == SeqsUpTo(UserOptions, MaxOptions)

\* config.maxConcurrency: 0 when not configured.
MaxConcurrencyValues == {0, 1, 4}

\* os.totalmem() in MiB: 2, 8, 16 and 64 GiB.
TotalmemValues == {2048, 8192, 16384, 65536}

\* Number.parseInt on the values above.
parseInt(x) ==
    CASE x = "2" -> Num(2)
      [] x = "9" -> Num(9)
      [] x = "-1" -> Num(-1)
      [] x \in {"0.1", "0.2", "0.3"} -> Num(0)
      [] OTHER -> NaN

\* Number.parseFloat on the values above, for an option in 0.01 units.
parseFloat(x) ==
    CASE x = "2" -> Num(200)
      [] x = "9" -> Num(900)
      [] x = "-1" -> Num(-100)
      [] x = "0.1" -> Num(10)
      [] x = "0.2" -> Num(20)
      [] x = "0.3" -> Num(30)
      [] OTHER -> NaN

\* typeConversion[type](value): [ok, val]; ok is FALSE when it throws.
typeConversion(type, x) ==
    CASE type = "int" -> [ok |-> TRUE, val |-> parseInt(x)]
      [] type = "float" -> [ok |-> TRUE, val |-> parseFloat(x)]
      [] OTHER -> IF x \in {"true", "1"} THEN [ok |-> TRUE, val |-> Bool(TRUE)]
                  ELSE IF x \in {"false", "0"} THEN [ok |-> TRUE, val |-> Bool(FALSE)]
                  ELSE [ok |-> FALSE, val |-> NaN]

\* checkDomain(domain, value) does not throw.  A comparison with NaN is false.
checkDomain(domain, val) ==
    CASE domain = "positive integer" -> val.t # "nan" /\ val.v >= 0
      [] domain = "float > 0.0" -> val.t # "nan" /\ val.v > 0
      [] OTHER -> TRUE

\* Variant of MathMin that returns its first argument.
MathMin_First(val, n) == val

\* Math.min(value, n) for a number n.
MathMin(val, n) ==
    IF val.t = "nan" THEN NaN
    ELSE IF val.v <= n THEN val ELSE Num(n)

\* options.find(o => o.name === name): the first option of that name, if any.
find(list, name) ==
    LET I == { i \in 1..Len(list) : list[i].name = name }
    IN  IF I = {} THEN 0 ELSE CHOOSE i \in I : \A j \in I : i <= j

\* The loop over odmOptions from the k-th description on; acc is
\* [result, errors, found]: the entries pushed, the number of errors added,
\* the names whose ...Found flag is set.
RECURSIVE scan(_, _, _, _, _)
scan(odm, options, maxConcurrency, k, acc) ==
    IF k > Len(odm) THEN acc
    ELSE LET o == odm[k]
             i == find(options, o.name)
         IN  IF i = 0 THEN scan(odm, options, maxConcurrency, k + 1, acc)
             ELSE LET c == typeConversion(o.type, options[i].value)
                  IN  IF ~c.ok \/ (o.domain # "" /\ ~checkDomain(o.domain, c.val))
                      THEN scan(odm, options, maxConcurrency, k + 1,
                                [acc EXCEPT !.errors = @ + 1])
                      ELSE LET val == IF o.name = "max-concurrency" /\ maxConcurrency # 0
                                      THEN MathMin(c.val, maxConcurrency) ELSE c.val
                           IN  scan(odm, options, maxConcurrency, k + 1,
                                    [acc EXCEPT !.result = Append(@, [name |-> o.name, value |-> val]),
                                                !.found = @ \cup {o.name}])

Max(a, b) == IF a >= b THEN a ELSE b

\* calculatedMaxConcurrency of the auto-calculation: 2.5 GB a thread and 4 GB
\* reserved up to 0.2 cm/pixel, 1.2 GB a thread and 2 GB reserved above;
\* totalmem in MiB, so (m/1024 - 4)/2.5 is (m - 4096)/2560 and
\* (m/1024 - 2)/1.2 is 5(m - 2048)/6144.
autoMaxConcurrency(resolution, totalmem) ==
    IF resolution <= 20
    THEN Max(1, (totalmem - 4096) \div 2560)
    ELSE Max(1, (5 * (totalmem - 2048)) \div 6144)

\* if (!xFound && xIsAnOption) result.push({name, value})
addDefault(res, odm, found, name, val) ==
    IF name \notin found /\ find(odm, name) # 0
    THEN Append(res, [name |-> name, value |-> val])
    ELSE res

\* filterOptions(options, done): what done receives, [err, result].
filterOptions(options, odm, maxConcurrency, totalmem) ==
    LET acc == scan(odm, options, maxConcurrency, 1, [result |-> << >>, errors |-> 0, found |-> {}])
        ri == find(acc.result, "orthophoto-resolution")
        resolution == IF ri # 0 THEN acc.result[ri].value.v ELSE 500
        mi == find(acc.result, "max-concurrency")
        r1 == IF "max-concurrency" \notin acc.found /\ find(odm, "max-concurrency") # 0
              THEN Append(acc.result,
                          [name |-> "max-concurrency",
                           value |-> Num(IF maxConcurrency > 0 THEN maxConcurrency
                                         ELSE autoMaxConcurrency(resolution, totalmem))])
              ELSE IF "max-concurrency" \in acc.found /\ maxConcurrency > 0 /\ mi # 0
                   THEN [acc.result EXCEPT ![mi].value = MathMin(@, maxConcurrency)]
                   ELSE acc.result
        r2 == addDefault(r1, odm, acc.found, "tiles", Bool(TRUE))
        r3 == addDefault(r2, odm, acc.found, "cog", Bool(TRUE))
        r4 == addDefault(r3, odm, acc.found, "matcher-neighbors", Num(8))
        r5 == addDefault(r4, odm, acc.found, "orthophoto-resolution", Num(10))
    IN  [err |-> acc.errors > 0, result |-> IF acc.errors > 0 THEN << >> ELSE r5]

\* A call of filterOptions is about to be made: the arguments and the
\* configuration are drawn, everything else is as after construction.
FilterInit ==
    /\ gcsBucket = FALSE
    /\ storage = FALSE
    /\ bucket = FALSE
    /\ init = [called |-> FALSE, existsPending |-> FALSE, cbCount |-> 0, cbErr |-> FALSE]
    /\ phase = "idle"
    /\ onOutput = FALSE
    /\ uploadList = << >>
    /\ totalFiles = 0
    /\ completedUploads = 0
    /\ cbCalled = FALSE
    /\ q = [tasks |-> << >>, numRunning |-> 0, drain |-> "none", processingScheduled |-> FALSE]
    /\ st = << >>
    /\ killed = FALSE
    /\ caller = [cbCount |-> 0, cbArg |-> NoCall, lastEvent |-> "none", cbInFlight |-> {}]
    /\ attempts = << >>
    /\ cleanup = NoCleanup
    /\ previous = "none"
    /\ listed = [called |-> FALSE, paths |-> << >>]
    /\ fo \in { [NoFilter EXCEPT !.phase = "called", !.options = o, !.odmOptions = d,
                                 !.maxConcurrency = c, !.totalmem = m] :
                  o \in OptionLists, d \in OdmOptionLists,
                  c \in MaxConcurrencyValues, m \in TotalmemValues }

\* filterOptions runs and calls done.
FilterOptions ==
    /\ fo.phase = "called"
    /\ LET r == filterOptions(fo.options, fo.odmOptions, fo.maxConcurrency, fo.totalmem)
       IN  fo' = [fo EXCEPT !.phase = "done", !.err = r.err, !.result = r.result]
    /\ UNCHANGED << moduleVars, batchVars, cleanup, previous, listed >>

FilterNext == FilterOptions

FilterSpec == FilterInit /\ [][FilterNext]_vars

\* -------------------------------------------------------------- properties
retries(t) == uploadList[t].retries

Failed == { t \in Tasks : st[t] = "failed" }

\* C1: the completion callback of a batch is invoked at most once, whatever
\* the interleaving of 'finish' and 'error' events and however many tasks fail
\* terminally or finish after cbCalled is set.
C1_CallbackAtMostOnce == caller.cbCount <= 1

\* Two tasks have failed terminally and the callback has been invoked.
C1_Witness == Cardinality(Failed) >= 2 /\ caller.cbCount = 1 /\ cbCalled

\* C2: the number of tasks handed to the worker that have not yet called
\* done() (uploading, or waiting for their retry timer) never exceeds
\* PARALLEL_UPLOADS, also after q.kill() and after retried tasks are re-pushed.
C2_InFlightBounded == Cardinality(InFlight(Cur)) <= PARALLEL_UPLOADS

\* All slots are taken, one of them by a retried task, and a task is waiting.
C2_Witness ==
    /\ Cardinality(InFlight(Cur)) = PARALLEL_UPLOADS
    /\ Len(q.tasks) > 0
    /\ \E t \in Tasks : st[t] = "uploading" /\ retries(t) > 0

\* C3: 0 <= file.retries <= MAX_RETRIES for every task in every state; the
\* counter starts at 0, only the error handler of a running attempt changes it,
\* by one, and never once it equals MAX_RETRIES.
C3_RetriesBounded ==
    /\ [](\A t \in Tasks : retries(t) >= 0 /\ retries(t) <= MAX_RETRIES)
    /\ [][ /\ uploadList' # uploadList /\ Tasks = {}
              => \A t \in DOMAIN uploadList' : uploadList'[t].retries = 0
           /\ \A t \in Tasks :
                uploadList'[t] # uploadList[t]
                  => /\ st[t] = "uploading" /\ st'[t] = "backoff"
                     /\ retries(t) < MAX_RETRIES
                     /\ uploadList'[t] = [uploadList[t] EXCEPT !.retries = @ + 1] ]_vars

\* A task has used all its retries and has failed terminally.
C3_Witness == \E t \in Tasks : retries(t) = MAX_RETRIES /\ st[t] = "failed"

\* C4: when the expansion of the paths yields no task, uploadPaths invokes cb
\* once, with no error, within the call; no queue is created and no task is
\* ever dispatched.
C4_EmptyBatch ==
    /\ [][ (phase = "idle" /\ phase' # "idle" /\ enabled /\ uploadList' = << >>)
             => /\ phase' = "returned"
                /\ caller'.cbCount = 1 /\ caller'.cbArg = NoError
                /\ q'.drain = "none" /\ st' = << >> ]_vars
    /\ [](phase = "returned"
            => caller.cbCount = 1 /\ q.drain = "none" /\ st = << >> /\ q.numRunning = 0)

\* An initialised store was given paths that expand to nothing.
C4_Witness ==
    /\ phase = "returned" /\ enabled
    /\ caller.cbArg = NoError /\ caller.cbCount = 1 /\ totalFiles = 0

\* C5: in a non-empty batch in which no task fails terminally (every task
\* succeeds after at most MAX_RETRIES failed attempts), and every stream event
\* and timer eventually happens, completedUploads eventually equals totalFiles
\* and cb is invoked with no error.
C5_AllSucceedEventually ==
    (phase = "running")
      ~> (\/ Failed # {}
          \/ /\ completedUploads = totalFiles
             /\ caller.cbCount = 1 /\ caller.cbArg = NoError)

\* The batch succeeded although a task needed all MAX_RETRIES retries.
C5_Witness ==
    /\ phase = "running" /\ caller.cbArg = NoError /\ completedUploads = totalFiles
    /\ \E t \in Tasks : retries(t) = MAX_RETRIES /\ st[t] = "succeeded"

\* C6: when cb receives the error of the task that failed on every attempt,
\* the error identifies that file and no other file of the batch: the name in
\* the error is the name of the failed file only.
C6_ErrorIdentifiesFile ==
    (phase = "running" /\ IsError(caller.cbArg))
      => \E t \in Failed :
            /\ caller.cbArg.filename = basename(uploadList[t].dest)
            /\ caller.cbArg.retries = MAX_RETRIES
            /\ \A u \in Tasks :
                 basename(uploadList[u].dest) = caller.cbArg.filename
                   => uploadList[u].dest = uploadList[t].dest

\* C7: once errHandler has run q.kill(), no task is dispatched to the worker
\* any more, whether it was pending or waiting for its retry timer at the abort.
C7_NoDispatchAfterAbort ==
    [][ killed => \A t \in Tasks : st'[t] = "uploading" => st[t] = "uploading" ]_vars

\* C8: the completion callback is the last event the caller observes: no
\* onOutput message follows it.
C8_CallbackIsLastEvent == caller.cbCount > 0 => caller.lastEvent = "cb"

\* C9: when cb receives the fatal error, no task is in flight any more.
C9_ErrorAfterInFlightDone == IsError(caller.cbArg) => caller.cbInFlight = {}

\* C10 as stated: cb receives an error only if some task emitted 'error' with
\* its retries counter at MAX_RETRIES.
C10_ErrorOnlyFromExhaustedTask ==
    IsError(caller.cbArg) => \E t \in Failed : retries(t) = MAX_RETRIES

\* C10, amended: cb receives an error only if the store is not initialised
\* (before any task exists) or some task emitted 'error' with its retries
\* counter at MAX_RETRIES; a failed attempt of a task with retries <
\* MAX_RETRIES neither invokes cb nor kills the queue.
C10_TransientAbsorbed ==
    /\ [](IsError(caller.cbArg)
            => IF phase = "running"
               THEN \E t \in Failed : retries(t) = MAX_RETRIES
               ELSE caller.cbArg = NotInitializedError /\ uploadList = << >>)
    /\ [][ \A t \in Tasks :
             (st[t] = "uploading" /\ st'[t] \in {"backoff", "failed"}
                /\ retries(t) < MAX_RETRIES)
               => /\ caller'.cbCount = caller.cbCount /\ caller'.cbArg = caller.cbArg
                  /\ killed' = killed /\ q'.drain = q.drain
                  /\ q'.tasks = q.tasks ]_vars

\* A task is waiting for its last retry and nothing was reported or killed.
C10_Witness ==
    /\ \E t \in Tasks : st[t] = "backoff" /\ retries(t) = MAX_RETRIES
    /\ caller.cbCount = 0 /\ ~killed

\* C11: whenever cb has been invoked with no error for a non-empty batch,
\* every task has succeeded and completedUploads = totalFiles; no task is
\* pending, in flight or waiting for a retry timer.
C11_SuccessMeansAllUploaded ==
    (phase = "running" /\ caller.cbArg = NoError)
      => /\ \A t \in Tasks : st[t] = "succeeded"
         /\ completedUploads = totalFiles
         /\ q.tasks = << >> /\ q.numRunning = 0 /\ InFlight(Cur) = {}

\* A batch of three tasks has reported success after retries.
C11_Witness ==
    /\ phase = "running" /\ caller.cbArg = NoError /\ totalFiles = MaxTasks
    /\ \E t \in Tasks : retries(t) > 0

\* C12: a throwing onOutput does not change control flow: uploadPaths is not
\* left by the exception, every occupied worker slot belongs to a task that is
\* uploading or waiting for its retry timer (the affected task released its
\* slot or was rescheduled), and the callback is invoked once cbCalled is set.
C12_SinkFailureHarmless ==
    /\ phase # "sinkThrew"
    /\ phase = "running" => q.numRunning = Cardinality(InFlight(Cur))
    /\ cbCalled => caller.cbCount = 1

\* C13: a filesystem error during the task list construction ends the batch
\* in one fatal failure: cb is invoked once with an error, no task dispatched.
C13_FsErrorIsFatalFailure ==
    phase = "fsThrew"
      => caller.cbCount = 1 /\ IsError(caller.cbArg) /\ st = << >>

\* C14: cleanupLocalPaths attempts the deletion of every listed path that
\* exists when its turn comes, in list order, whichever deletions fail, and
\* then invokes cb once with no error; before that cb is not invoked.
C14_CleanupBestEffort ==
    /\ cleanup.phase = "running" => cleanup.cbCount = 0
    /\ \A k \in 1..Len(cleanup.attempted) :
          /\ cleanup.attempted[k] \in 1..Len(cleanup.paths)
          /\ k > 1 => cleanup.attempted[k - 1] < cleanup.attempted[k]
    /\ cleanup.phase = "done"
         => /\ cleanup.cbCount = 1 /\ ~cleanup.cbErr /\ ~cleanup.pending
            /\ \A i \in 1..Len(cleanup.paths) :
                 (\E k \in 1..Len(cleanup.attempted) : cleanup.attempted[k] = i)
                   <=> /\ existsSync(cleanup.paths[i])
                       /\ ~ \E j \in cleanup.deletedAt :
                              /\ j < i
                              /\ \/ cleanup.paths[j] = cleanup.paths[i]
                                 \/ IsUnder(cleanup.paths[j], cleanup.paths[i])

\* The cleanup ended after the first deletion failed and a later one was tried.
C14_Witness ==
    /\ cleanup.phase = "done" /\ cleanup.cbCount = 1
    /\ 1 \in cleanup.failedAt /\ 2 \in cleanup.deletedAt

C16_SetupErrorBeforeTransfer ==
    [][ /\ (phase = "idle" /\ phase' # "idle" /\ ~enabled)
          => /\ phase' = "returned"
             /\ caller'.cbCount = 1 /\ caller'.cbArg = NotInitializedError
             /\ uploadList' = << >> /\ totalFiles' = 0 /\ st' = << >>
             /\ q' = q /\ q.drain = "none" /\ ~cbCalled'
        /\ (phase = "returned" /\ caller.cbArg = NotInitializedError)
          => UNCHANGED batchVars ]_vars

\* A bucket is configured, initialize did not complete, uploadPaths was called.
C16_Witness ==
    /\ phase = "returned" /\ caller.cbArg = NotInitializedError /\ caller.cbCount = 1
    /\ gcsBucket /\ ~enabled

\* C17 as stated: a file whose attempts all fail is reported after 5 attempts,
\* the delays scheduled for it being 2 s, 4 s, 8 s, 16 s and 32 s in that order.
C17_FailsAfterFiveAttempts ==
    \A t \in Failed :
        /\ attempts[t].started = 5
        /\ attempts[t].delays = << 2000, 4000, 8000, 16000, 32000 >>
        /\ caller.cbCount = 1 /\ caller.cbArg.kind = "Failed to upload"

\* C17: a file whose attempts all fail is reported after MAX_RETRIES + 1 = 6
\* attempts (the first one and 5 retries), the delays scheduled for it being
\* 2 s, 4 s, 8 s, 16 s and 32 s in that order, each computed from the
\* incremented retries counter; while it retries, the k-th delay is 2^k s.
C17_FailsAfterSixAttempts ==
    /\ \A t \in Tasks :
          /\ Len(attempts[t].delays) = retries(t)
          /\ \A k \in 1..retries(t) : attempts[t].delays[k] = Pow2(k) * 1000
    /\ \A t \in Failed :
          /\ attempts[t].started = MAX_RETRIES + 1
          /\ attempts[t].delays = << 2000, 4000, 8000, 16000, 32000 >>
          /\ caller.cbCount = 1 /\ caller.cbArg.kind = "Failed to upload"

\* A file failed terminally while another file of the batch was uploaded.
C17_Witness ==
    \E t, u \in Tasks : st[t] = "failed" /\ st[u] = "succeeded" /\ attempts[t].started = 6

\* The last attempt the retry limit allows for task t has ended with 'error'.
Exhausted(t) ==
    /\ attempts[t].started = MAX_RETRIES + 1
    /\ st[t] \notin {"uploading", "succeeded"}

\* C19: a task that has emitted 'error' with retries = MAX_RETRIES stays
\* failed: no later step of the batch pushes it onto the queue or starts a
\* worker for it.
C19_ExhaustedIsTerminal ==
    [][ \A t \in Tasks :
          Exhausted(t) => /\ st[t] = "failed" /\ st'[t] = "failed"
                          /\ attempts'[t] = attempts[t]
                          /\ \A i \in 1..Len(q'.tasks) : q'.tasks[i] # t ]_vars

\* A task failed terminally and a task that was in flight at the callback has
\* finished since.
C19_Witness ==
    \E t, u \in Tasks :
        /\ st[t] = "failed" /\ Exhausted(t)
        /\ u \in caller.cbInFlight /\ st[u] = "succeeded"

\* C20: completedUploads never decreases and never exceeds totalFiles; it
\* grows by one exactly when one task emits 'finish' and always equals the
\* number of tasks that have emitted 'finish', also after an abort.
C20_CompletedUploadsBounded ==
    [][ LET finished == { t \in Tasks : st[t] = "succeeded" }
            finished1 == { t \in DOMAIN st' : st'[t] = "succeeded" }
        IN  /\ completedUploads <= totalFiles
            /\ completedUploads' <= totalFiles'
            /\ completedUploads' >= completedUploads
            /\ completedUploads = Cardinality(finished)
            /\ completedUploads' = Cardinality(finished1)
            /\ finished \subseteq finished1
            /\ completedUploads' - completedUploads = Cardinality(finished1 \ finished)
            /\ completedUploads' - completedUploads <= 1 ]_vars

\* A file retried before it finished, and a file finished after the abort.
C20_Witness ==
    /\ killed /\ caller.cbCount = 1
    /\ \E t \in Tasks : st[t] = "succeeded" /\ t \in caller.cbInFlight
    /\ \E t \in Tasks : st[t] = "succeeded" /\ retries(t) > 0
    /\ completedUploads >= 2

InQueue(t) == Cardinality({ i \in 1..Len(q.tasks) : q.tasks[i] = t })

\* The attempts of task t that have ended: each 'error' below the limit
\* incremented retries, and 'finish' or the last 'error' ended one more.
Ended(t) == retries(t) + (IF st[t] \in {"succeeded", "failed"} THEN 1 ELSE 0)

\* Every task is in the queue at most once, and in the queue exactly when no
\* attempt of it is live and it is not waiting for a timer; at most one
\* attempt of it is live; every worker slot in use holds a different task.
Ownership ==
    /\ \A t \in Tasks :
          /\ InQueue(t) <= 1
          /\ InQueue(t) = 1 <=> st[t] = "queued"
          /\ attempts[t].started - Ended(t) \in {0, 1}
          /\ attempts[t].started - Ended(t) = 1 <=> st[t] = "uploading"
    /\ phase = "running" => q.numRunning = Cardinality(InFlight(Cur))

\* C21 as stated: every task is always pending in the queue, being uploaded,
\* waiting for its retry timer, succeeded or terminally failed, and owned by
\* at most one worker.
C21_FiveStatesOnly ==
    /\ Ownership
    /\ \A t \in Tasks : st[t] \in {"queued", "uploading", "backoff", "succeeded", "failed"}

\* C21: every task is owned by at most one worker at a time and is in exactly
\* one of: pending in the queue, being uploaded, waiting for its retry timer,
\* succeeded, terminally failed, or dropped from the queue by the abort.
C21_ExclusiveOwnership ==
    /\ Ownership
    /\ \A t \in Tasks :
          /\ st[t] \in {"queued", "uploading", "backoff", "succeeded", "failed", "removed"}
          /\ st[t] = "removed" => killed

\* A retried task is back in the queue while one task is being uploaded and
\* another waits for its retry timer.
C21_Witness ==
    \E t, u, v \in Tasks :
        /\ st[t] = "queued" /\ retries(t) > 0
        /\ st[u] = "uploading" /\ st[v] = "backoff"

\* The files the listed paths stand for, in list order: a listed regular file
\* itself, every regular file beneath a listed directory, nothing for a path
\* that does not exist.
RECURSIVE ListedFiles(_)
ListedFiles(paths) ==
    IF paths = << >> THEN << >>
    ELSE LET p == Head(paths)
             own == IF p \in RegularFiles THEN << p >>
                    ELSE IF p \in Directories
                         THEN SelectSeq(WalkOrder, LAMBDA f : f \in RegularFiles /\ IsUnder(p, f))
                         ELSE << >>
         IN  own \o ListedFiles(Tail(paths))

\* uploadPaths passed the check of storage and bucket and built its list.
ListBuilt == listed.called /\ caller.cbArg # NotInitializedError

\* C22: the task list holds exactly one task per listed regular file and per
\* regular file beneath a listed directory, with relativePath relative to the
\* root, and nothing for a missing path; totalFiles is the length of the
\* list, also after retries.
C22_ExpansionComplete ==
    ListBuilt
      => /\ relativePaths(uploadList) = ListedFiles(listed.paths)
         /\ totalFiles = Len(uploadList)
         /\ \A t \in Tasks :
               /\ uploadList[t].src = join(SrcFolder, uploadList[t].relativePath)
               /\ uploadList[t].dest = join(DstFolder, uploadList[t].relativePath)

\* Apart from the files glob hides, the expansion is as C22 says.
C22_ExpansionOfVisibleFiles ==
    ListBuilt
      => /\ relativePaths(uploadList) =
               SelectSeq(ListedFiles(listed.paths), LAMBDA f : \A i \in 1..Len(f) : f[i] \notin DotNames)
         /\ totalFiles = Len(uploadList)
         /\ \A t \in Tasks :
               /\ uploadList[t].src = join(SrcFolder, uploadList[t].relativePath)
               /\ uploadList[t].dest = join(DstFolder, uploadList[t].relativePath)

Uploading == { t \in Tasks : st[t] = "uploading" }

Backoff == { t \in Tasks : st[t] = "backoff" }

\* C23: a task waiting for its retry timer holds its worker slot: with k
\* tasks in backoff at most PARALLEL_UPLOADS - k tasks are uploading, a task
\* leaves backoff only by being pushed again, and while PARALLEL_UPLOADS
\* tasks are in backoff no worker is started in a step in which no timer fires.
C23_BackoffHoldsSlot ==
    [][ /\ Cardinality(Uploading) <= PARALLEL_UPLOADS - Cardinality(Backoff)
        /\ phase = "running" => q.numRunning = Cardinality(Uploading) + Cardinality(Backoff)
        /\ \A t \in Backoff : st'[t] \in {"backoff", "queued", "uploading"}
        /\ Cardinality(Backoff) = PARALLEL_UPLOADS
             => \A t \in Tasks :
                  (st[t] # "uploading" /\ st'[t] = "uploading")
                    => \E u \in Backoff : st'[u] # "backoff" ]_vars

\* Every slot is held by a task in backoff while a task waits in the queue.
C23_Witness ==
    /\ Cardinality(Backoff) = PARALLEL_UPLOADS
    /\ Len(q.tasks) > 0 /\ ~q.processingScheduled

\* initialize has reported an error to its callback.
InitializeFailed == init.cbCount >= 1 /\ init.cbErr

\* C24: initialize invokes its callback at most once, and exactly once when
\* it has nothing outstanding; after it reported an error, enabled() is false
\* and a call of uploadPaths is refused with 'GCS is not initialized'.
C24_EnabledOnlyAfterSuccess ==
    [][ /\ init.cbCount <= 1
        /\ (init.called /\ ~init.existsPending) => init.cbCount = 1
        /\ InitializeFailed => ~enabled
        /\ (InitializeFailed /\ phase = "idle" /\ phase' # "idle")
             => /\ phase' = "returned"
                /\ caller'.cbArg = NotInitializedError ]_vars

\* The parts of C24 that do not depend on what bucket.exists reports: one
\* callback per initialize, and no store when a constructor call threw.
C24_CallbackOnceAndThrowDisables ==
    /\ init.cbCount <= 1
    /\ (init.called /\ ~init.existsPending) => init.cbCount = 1
    /\ (InitializeFailed /\ ~bucket) => ~enabled

\* The values of the entries of the result that have the given name.
Entries(name) == { i \in 1..Len(fo.result) : fo.result[i].name = name }

\* filterOptions has called done without an error.
FilterSucceeded == fo.phase = "done" /\ ~fo.err

\* The user sent an option of the given name.
UserSent(name) == find(fo.options, name) # 0

\* C25: with config.maxConcurrency positive, a result without error holds at
\* most one max-concurrency entry, a number <= config.maxConcurrency, whether
\* the user sent it or it was filled in; and no name occurs twice in a result.
C25_MaxConcurrencyCapped ==
    FilterSucceeded
      => /\ \A i, j \in 1..Len(fo.result) : fo.result[i].name = fo.result[j].name => i = j
         /\ fo.maxConcurrency > 0
              => \A i \in Entries("max-concurrency") :
                    /\ fo.result[i].value.t = "num"
                    /\ fo.result[i].value.v <= fo.maxConcurrency

\* The user asked for more than the configured limit and got the limit.
C25_Witness ==
    /\ FilterSucceeded /\ fo.maxConcurrency = 4
    /\ UserSent("max-concurrency") /\ fo.options[find(fo.options, "max-concurrency")].value = "9"
    /\ \E i \in Entries("max-concurrency") : fo.result[i].value = Num(4)

\* C26: an auto-calculated max-concurrency (no user value, no configured
\* limit) agrees with the orthophoto-resolution of the same result: up to
\* 0.2 cm/pixel, the 0.1 default included, it is max(1, floor((GB - 4) / 2.5)),
\* above it is max(1, floor((GB - 2) / 1.2)).
C26_ConsistentWithResolution ==
    (FilterSucceeded /\ fo.maxConcurrency = 0 /\ ~UserSent("max-concurrency"))
      => \A i \in Entries("max-concurrency"), j \in Entries("orthophoto-resolution") :
            fo.result[i].value =
                Num(IF fo.result[j].value.v <= 20
                    THEN Max(1, (fo.totalmem - 4096) \div 2560)
                    ELSE Max(1, (5 * (fo.totalmem - 2048)) \div 6144))

\* C26 holds when the user sent the orthophoto-resolution of the result.
C26_ConsistentWithUserResolution ==
    (FilterSucceeded /\ fo.maxConcurrency = 0 /\ ~UserSent("max-concurrency")
       /\ UserSent("orthophoto-resolution"))
      => \A i \in Entries("max-concurrency"), j \in Entries("orthophoto-resolution") :
            fo.result[i].value =
                Num(IF fo.result[j].value.v <= 20
                    THEN Max(1, (fo.totalmem - 4096) \div 2560)
                    ELSE Max(1, (5 * (fo.totalmem - 2048)) \div 6144))

====
